---- MODULE Spec2Model ----
(***************************************************************************)
(* A model of xiaomi.py: the psychrometric calculation of Measurement, the *)
(* notification wait loop of requestMeasurement, main's request sequence   *)
(* and the scan callback.                                                  *)
(*                                                                         *)
(* Python floats are modelled as binary floating-point numbers with a      *)
(* 29-bit mantissa (value = m * 2^e), so every product, quotient, exp and  *)
(* log is really computed and rounded, within the 32-bit integers of TLC.  *)
(* Sensor values and one-decimal results are carried as integer tenths.    *)
(***************************************************************************)
EXTENDS Integers, Sequences, FiniteSets, TLC

(***************************************************************************)
(* Floating point: [m |-> mantissa, e |-> exponent], m = 0 or              *)
(* 2^28 <= |m| < 2^29.  The operations are functions, so that an argument  *)
(* is a value, computed once.                                              *)
(***************************************************************************)
Two12 == 2^12
Two15 == 2^15
Two28 == 2^28
Two29 == 2^29

Floats == [m : Int, e : Int]

Abs(n) == IF n < 0 THEN -n ELSE n

Sgn(n) == IF n < 0 THEN -1 ELSE IF n > 0 THEN 1 ELSE 0

FZero == [m |-> 0, e |-> 0]

\* the number of bits 0 < m < 2^29 is short of 29
Short == [m \in Int |-> CHOOSE k \in 0..28 : 2^(28 - k) <= m /\ m < 2^(29 - k)]

\* 0 < m < 2^29 shifted left until 2^28 <= m
NormUp == [m \in Int, e \in Int |-> [m |-> m * 2^Short[m], e |-> e - Short[m]]]

\* m / 2^d for m >= 0, rounded to the nearest integer, a tie to the even one
RoundShift ==
    [m \in Int, d \in Int |->
        IF d = 0 THEN m
        ELSE IF d > 30 THEN 0
        ELSE LET p == 2^d
                 q == m \div p
                 r == m % p
             IN  IF 2 * r > p \/ (2 * r = p /\ q % 2 = 1) THEN q + 1 ELSE q]

\* the bits m >= 2^29 has beyond 29
Excess(m) == IF m >= 2 * Two29 THEN 2 ELSE 1

\* the mantissa q of m >= 2^29, rounded, with its exponent
Rounded ==
    [q \in Int, e \in Int |->
        IF q = Two29 THEN [m |-> Two28, e |-> e + 1] ELSE [m |-> q, e |-> e]]

NormDown == [m \in Int, e \in Int |-> Rounded[RoundShift[m, Excess(m)], e + Excess(m)]]

NormAbs == [m \in Int, e \in Int |-> IF m < Two29 THEN NormUp[m, e] ELSE NormDown[m, e]]

Signed == [s \in Int, n \in Floats |-> [m |-> s * n.m, e |-> n.e]]

\* the float nearest to m * 2^e
Norm ==
    [m \in Int, e \in Int |->
        IF m = 0 THEN FZero ELSE Signed[Sgn(m), NormAbs[Abs(m), e]]]

FromInt == [n \in Int |-> Norm[n, 0]]

FNeg == [a \in Floats |-> [m |-> -a.m, e |-> a.e]]

\* the top 31 bits of the 58-bit product x * y, by 14/15-bit halves
MulHigh ==
    [x \in Int, y \in Int |->
        LET ah == x \div Two15
            al == x % Two15
            bh == y \div Two15
            bl == y % Two15
        IN  8 * ah * bh + ((ah * bl + al * bh + ((al * bl) \div Two15)) \div Two12)]

\* a * b
FMul ==
    [a \in Floats, b \in Floats |->
        IF a.m = 0 \/ b.m = 0 THEN FZero
        ELSE Norm[Sgn(a.m) * Sgn(b.m) * MulHigh[Abs(a.m), Abs(b.m)], a.e + b.e + 27]]

\* two further quotient bits of s.r / d, for s.r < d < 2^29
DivStep ==
    [s \in [q : Int, r : Int], d \in Int |->
        [q |-> 4 * s.q + ((4 * s.r) \div d), r |-> (4 * s.r) % d]]

DivStep5 ==
    [s \in [q : Int, r : Int], d \in Int |->
        DivStep[DivStep[DivStep[DivStep[DivStep[s, d], d], d], d], d]]

\* q followed by 30 further quotient bits of r / d, for r < d < 2^29
LongDiv ==
    [q \in Int, r \in Int, d \in Int |->
        DivStep5[DivStep5[DivStep5[[q |-> q, r |-> r], d], d], d].q]

\* a / b for b # 0: 31 quotient bits
FDiv ==
    [a \in Floats, b \in Floats |->
        IF a.m = 0 THEN FZero
        ELSE Norm[Sgn(a.m) * Sgn(b.m)
                    * LongDiv[Abs(a.m) \div Abs(b.m), Abs(a.m) % Abs(b.m), Abs(b.m)],
                  a.e - b.e - 30]]

\* a + b for a.e > b.e: one guard bit kept
AddAligned ==
    [a \in Floats, b \in Floats |->
        Norm[2 * a.m + Sgn(b.m) * RoundShift[Abs(b.m), a.e - b.e - 1], a.e - 1]]

FAdd ==
    [a \in Floats, b \in Floats |->
        IF a.m = 0 THEN b
        ELSE IF b.m = 0 THEN a
        ELSE IF a.e = b.e THEN Norm[a.m + b.m, a.e]
        ELSE IF a.e > b.e THEN AddAligned[a, b]
        ELSE AddAligned[b, a]]

FSub == [a \in Floats, b \in Floats |-> FAdd[a, FNeg[b]]]

FSign == [a \in Floats |-> Sgn(a.m)]

FLess(a, b) == FSub[a, b].m < 0

FLeq(a, b) == FSub[a, b].m <= 0

\* a decimal literal n / d
Dec == [n \in Int, d \in Int |-> FDiv[FromInt[n], FromInt[d]]]

\* a slip: floor instead of truncation toward zero
MutTruncFloor ==
    [a \in Floats |->
        IF a.e >= 0 THEN a.m * 2^a.e
        ELSE IF -a.e > 30 THEN (IF a.m < 0 THEN -1 ELSE 0)
        ELSE a.m \div 2^(-a.e)]

\* int(x): truncation toward zero
Trunc ==
    [a \in Floats |->
        IF a.e >= 0 THEN a.m * 2^a.e
        ELSE IF -a.e > 30 THEN 0
        ELSE Sgn(a.m) * (Abs(a.m) \div 2^(-a.e))]

\* round(x): to the nearest integer, a tie to the even one
Round ==
    [a \in Floats |->
        IF a.e >= 0 THEN a.m * 2^a.e ELSE Sgn(a.m) * RoundShift[Abs(a.m), -a.e]]

Ln2 == Dec[693147181, 1000000000]

Sqrt2 == Dec[141421356, 100000000]

\* 1 + r/n * acc
ExpTerm ==
    [r \in Floats, n \in Int, acc \in Floats |->
        FAdd[FromInt[1], FMul[FDiv[r, FromInt[n]], acc]]]

ExpTail ==
    [r \in Floats |->
        ExpTerm[r, 7, ExpTerm[r, 8, ExpTerm[r, 9, ExpTerm[r, 10, ExpTerm[r, 11,
            ExpTerm[r, 12, FromInt[1]]]]]]]]

\* 1 + r/1 * (1 + r/2 * (... (1 + r/12))), the Taylor series of exp
ExpSeries ==
    [r \in Floats |->
        ExpTerm[r, 1, ExpTerm[r, 2, ExpTerm[r, 3, ExpTerm[r, 4, ExpTerm[r, 5,
            ExpTerm[r, 6, ExpTail[r]]]]]]]]

\* s * 2^k
Scaled == [s \in Floats, k \in Int |-> [m |-> s.m, e |-> s.e + k]]

\* e^x for -745 < x < 709: x = k ln 2 + r, e^x = 2^k e^r
ExpReduced ==
    [x \in Floats, k \in Int |-> Scaled[ExpSeries[FSub[x, FMul[FromInt[k], Ln2]]], k]]

ExpValue == [x \in Floats |-> ExpReduced[x, Round[FDiv[x, Ln2]]]]

\* 1/n + s2 * acc
AtanhTerm ==
    [s2 \in Floats, n \in Int, acc \in Floats |-> FAdd[Dec[1, n], FMul[s2, acc]]]

AtanhTail ==
    [s2 \in Floats |->
        AtanhTerm[s2, 9, AtanhTerm[s2, 11, AtanhTerm[s2, 13, AtanhTerm[s2, 15,
            Dec[1, 17]]]]]]

\* 1/1 + s2 * (1/3 + s2 * (... (1/15 + s2 * 1/17))), the series of atanh(s) / s
AtanhSeries ==
    [s2 \in Floats |->
        AtanhTerm[s2, 1, AtanhTerm[s2, 3, AtanhTerm[s2, 5, AtanhTerm[s2, 7,
            AtanhTail[s2]]]]]]

\* 2 atanh(s)
Atanh2 == [s \in Floats |-> FMul[FMul[FromInt[2], s], AtanhSeries[FMul[s, s]]]]

\* ln f for f in [sqrt(1/2), sqrt 2): 2 atanh((f - 1) / (f + 1))
LogNear1 == [f \in Floats |-> Atanh2[FDiv[FSub[f, FromInt[1]], FAdd[f, FromInt[1]]]]]

\* ln x for x > 0: x = f * 2^k, ln x = k ln 2 + ln f
LogValue ==
    [x \in Floats |->
        IF FLess([m |-> x.m, e |-> -28], Sqrt2)
        THEN FAdd[FMul[FromInt[x.e + 28], Ln2], LogNear1[[m |-> x.m, e |-> -28]]]
        ELSE FAdd[FMul[FromInt[x.e + 29], Ln2], LogNear1[[m |-> x.m, e |-> -29]]]]

(***************************************************************************)
(* Measurement.__init__ (xiaomi.py 15-34).  temperatureC and relHumidity   *)
(* are tenths (the sensor reports one decimal); absHumidity, dewPointC and *)
(* steamPressure are the integers n of "n / 10.0"; the Fahrenheit fields   *)
(* are hundredths.                                                         *)
(***************************************************************************)
Tenths == [n \in Int |-> Dec[n, 10]]

\* z1 = (7.45 * temperatureC) / (235 + temperatureC)
Z1 == [T \in Floats |-> FDiv[FMul[Dec[745, 100], T], FAdd[FromInt[235], T]]]

\* the argument of math.exp: z1 * 2.3025851
ExpArg == [z1 \in Floats |-> FMul[z1, Dec[23025851, 10000000]]]

\* es = 6.1 * math.exp(z1 * 2.3025851), below math.exp's overflow
Es ==
    [z1 \in Floats |->
        IF FLess(ExpArg[z1], FromInt[-745]) THEN FZero
        ELSE FMul[Dec[61, 10], ExpValue[ExpArg[z1]]]]

\* a slip: the dry share of the air instead of the humid one
MutVaporPressure ==
    [es \in Floats, RH \in Floats |-> FDiv[FMul[es, FSub[FromInt[100], RH]], FromInt[100]]]

\* e = es * relHumidity / 100.0
VaporPressure == [es \in Floats, RH \in Floats |-> FDiv[FMul[es, RH], FromInt[100]]]

\* z2 = e / 6.1
Z2 == [e \in Floats |-> FDiv[e, Dec[61, 10]]]

\* the argument of round: (216.7 * e) / (273.15 + temperatureC) * 10
AbsHumidityX10 ==
    [e \in Floats, T \in Floats |->
        FMul[FDiv[FMul[Dec[2167, 10], e], FAdd[Dec[27315, 100], T]], FromInt[10]]]

\* z3 = 0.434292289 * math.log(z2)
Z3 == [z2 \in Floats |-> FMul[Dec[434292289, 1000000000], LogValue[z2]]]

\* the argument of int: (235 * z3) / (7.45 - z3) * 10
DewPointX10 ==
    [z3 \in Floats |->
        FMul[FDiv[FMul[FromInt[235], z3], FSub[Dec[745, 100], z3]], FromInt[10]]]

\* the argument of int: e * 10
SteamPressureX10 == [e \in Floats |-> FMul[e, FromInt[10]]]

\* the constructor left by an exception: no object, the attributes assigned so far
Raise(exc, assigned) == [raised |-> exc, fields |-> assigned]

AllFields ==
    {"temperatureC", "relHumidity", "absHumidity", "dewPointC", "steamPressure",
     "temperatureF", "dewPointF"}

\* the attributes assigned before z1 is computed
InputFields == {"temperatureC", "relHumidity"}

\* lines 30-34: the object with its attributes
Object ==
    [temperatureC \in Int, relHumidity \in Int, absHumidity \in Int,
     dewPointC \in Int, steamPressure \in Int |->
        [raised        |-> "None",
         fields        |-> AllFields,
         temperatureC  |-> temperatureC,
         relHumidity   |-> relHumidity,
         absHumidity   |-> absHumidity,
         dewPointC     |-> dewPointC,
         steamPressure |-> steamPressure,
         temperatureF  |-> 18 * temperatureC + 3200,
         dewPointF     |-> 18 * dewPointC + 3200]]

\* lines 30-34, once z3 is computed
Derived ==
    [temperatureC \in Int, relHumidity \in Int, e \in Floats, absHumidity \in Int,
     z3 \in Floats |->
        IF FSub[Dec[745, 100], z3].m = 0
        THEN Raise("ZeroDivisionError", InputFields \cup {"absHumidity"})
        ELSE Object[temperatureC, relHumidity, absHumidity,
                    Trunc[DewPointX10[z3]], Trunc[SteamPressureX10[e]]]]

\* a slip: log(0) taken as a value, only a negative argument raising
MutLogDomainError(z2) == z2.m < 0

\* math.log raises ValueError for an argument <= 0
LogDomainError(z2) == z2.m <= 0

\* lines 29-34, once absHumidity is assigned
WithAbsHumidity ==
    [temperatureC \in Int, relHumidity \in Int, e \in Floats, absHumidity \in Int,
     z2 \in Floats |->
        IF LogDomainError(z2)
        THEN Raise("ValueError", InputFields \cup {"absHumidity"})
        ELSE Derived[temperatureC, relHumidity, e, absHumidity, Z3[z2]]]

\* lines 23-34, once e is computed
WithVapor ==
    [temperatureC \in Int, relHumidity \in Int, T \in Floats, e \in Floats |->
        IF FAdd[Dec[27315, 100], T].m = 0 THEN Raise("ZeroDivisionError", InputFields)
        ELSE WithAbsHumidity[temperatureC, relHumidity, e,
                             Round[AbsHumidityX10[e, T]], Z2[e]]]

\* lines 21-34, once z1 is computed
WithZ1 ==
    [temperatureC \in Int, relHumidity \in Int, T \in Floats, RH \in Floats,
     z1 \in Floats |->
        IF FLess(FromInt[709], ExpArg[z1]) THEN Raise("OverflowError", InputFields)
        ELSE WithVapor[temperatureC, relHumidity, T, VaporPressure[Es[z1], RH]]]

\* lines 20-34, the inputs as floats
FromFloats ==
    [temperatureC \in Int, relHumidity \in Int, T \in Floats, RH \in Floats |->
        IF FAdd[FromInt[235], T].m = 0 THEN Raise("ZeroDivisionError", InputFields)
        ELSE WithZ1[temperatureC, relHumidity, T, RH, Z1[T]]]

\* Measurement(temperatureC, relHumidity): the object, or the exception raised
Measurement(temperatureC, relHumidity) ==
    FromFloats[temperatureC, relHumidity, Tenths[temperatureC], Tenths[relHumidity]]

(***************************************************************************)
(* State.                                                                  *)
(***************************************************************************)
VARIABLES
    calcT,          \* calculation: the temperature (tenths) held fixed
    first,          \* calculation: the first construction [relHumidity, result]
    second,         \* calculation: the second construction, or NoCall
    _measurement,   \* XiaomiThermometerHygrometer._measurement
    subscribed,     \* the client delivers notifications of handle 0x0d
    pc,             \* requestMeasurement: the statement the coroutine is at
    i,              \* requestMeasurement: the poll counter
    result,         \* requestMeasurement: how the last call ended, what it returned
                    \* and the call during which that was stored
    call,           \* history of the call in progress (or last ended)
    callNo,         \* the number of calls of requestMeasurement so far
    storedBy,       \* the call during which _measurement was stored (0: none,
                    \* -1: after a call ended)
    lastDelivery,   \* the last run of notification_handler
    delivered,      \* the number of notifications delivered so far
    args,           \* main: the parsed command line
    mpc,            \* main: the statement main is at
    data,           \* main: the dict data, as a set of <<key, value>>
    output,         \* main: the list output
    events,         \* main: the BLE calls made and the prints, in order
    stdout,         \* main: what was printed
    found_devices,  \* scan: the list found_devices
    printed,        \* scan: the addresses printed to stdout, in order
    stderr,         \* scan: the device counts written to stderr, in order
    advertised,     \* scan: the <<address, named>> advertisements seen
    callbacks       \* scan: the number of callbacks so far

calcVars == <<calcT, first, second>>

deviceVars ==
    <<_measurement, subscribed, pc, i, result, call, callNo, storedBy,
      lastDelivery, delivered>>

mainVars == <<args, mpc, data, output, events, stdout>>

scanVars == <<found_devices, printed, stderr, advertised, callbacks>>

vars == <<calcVars, deviceVars, mainVars, scanVars>>

NoCall == [relHumidity |-> 0, result |-> Raise("NotCalled", {})]

None == [none |-> TRUE]

NoArgs == [info |-> FALSE, battery |-> FALSE, measure |-> FALSE, json |-> FALSE]

\* the history of one call of requestMeasurement
NewCall(m) ==
    [fresh         |-> m = None,  \* no measurement held at entry
     startOK       |-> FALSE,     \* start_notify returned
     writeIssued   |-> FALSE,     \* write_gatt_char was called
     stops         |-> 0,         \* calls of stop_notify
     stopFailed    |-> FALSE,     \* stop_notify raised
     matched       |-> FALSE,     \* a matching notification reached the handler
     matchedInLoop |-> FALSE,     \* ... before the wait loop ended
     sleepsAtStore |-> -1]        \* sleeps begun when the loop's measurement was stored

NoDelivery == [match |-> FALSE, raised |-> FALSE, before |-> None]

\* the parts of the state a specification does not use
CalcIdle == calcT = 0 /\ first = NoCall /\ second = NoCall

MainIdle ==
    /\ args = NoArgs /\ mpc = "off" /\ data = {} /\ output = <<>>
    /\ events = <<>> /\ stdout = <<>>

ScanIdle ==
    /\ found_devices = <<>> /\ printed = <<>> /\ stderr = <<>>
    /\ advertised = {} /\ callbacks = 0

\* XiaomiThermometerHygrometer(mac): no measurement, no subscription
DeviceNew ==
    /\ _measurement = None
    /\ subscribed = FALSE
    /\ pc = "idle"
    /\ i = 0
    /\ result = [kind |-> "none", value |-> None, storedBy |-> 0]
    /\ call = NewCall(None)
    /\ callNo = 0
    /\ storedBy = 0
    /\ lastDelivery = NoDelivery
    /\ delivered = 0

(***************************************************************************)
(* The calculation alone: two Measurement objects are constructed at one   *)
(* temperature.  Inputs are tenths; -235.0 and relHumidity <= 0 are the    *)
(* domain-error inputs; at -235.1 math.exp overflows.                      *)
(***************************************************************************)
Temperatures == {-2351, -2350, -200, -100, 0, 250, 500}

Humidities == {-500, 0, 1, 100, 500, 505, 510, 999, 1000}

InitCalc ==
    /\ calcT \in Temperatures
    /\ first = NoCall
    /\ second = NoCall
    /\ DeviceNew /\ MainIdle /\ ScanIdle

ConstructFirst(h) ==
    /\ first = NoCall
    /\ first' = [relHumidity |-> h, result |-> Measurement(calcT, h)]
    /\ UNCHANGED <<calcT, second, deviceVars, mainVars, scanVars>>

ConstructSecond(h) ==
    /\ first # NoCall
    /\ second = NoCall
    /\ second' = [relHumidity |-> h, result |-> Measurement(calcT, h)]
    /\ UNCHANGED <<calcT, first, deviceVars, mainVars, scanVars>>

NextCalc ==
    \/ \E h \in Humidities : ConstructFirst(h)
    \/ \E h \in Humidities : ConstructSecond(h)

SpecCalc == InitCalc /\ [][NextCalc]_vars

\* the constructions made so far
Constructed == {c \in {first, second} : c # NoCall}

\* the constructions that returned an object
Objects == {c \in Constructed : c.result.raised = "None"}

\* the unrounded operands of round and int for a construction
VaporOf(c) == VaporPressure[Es[Z1[Tenths[calcT]]], Tenths[c.relHumidity]]

DewRawOf(c) == DewPointX10[Z3[Z2[VaporOf(c)]]]

SteamRawOf(c) == SteamPressureX10[VaporOf(c)]

AbsRawOf(c) == AbsHumidityX10[VaporOf(c), Tenths[calcT]]

\* n <= x < n + 1
FloorOf(n, x) == FLeq(FromInt[n], x) /\ FLess(x, FromInt[n + 1])

\* n - 1 < x <= n
CeilOf(n, x) == FLess(FromInt[n - 1], x) /\ FLeq(x, FromInt[n])

\* n - 1/2 <= x <= n + 1/2
NearestTo(n, x) ==
    /\ FLeq(FromInt[2 * n - 1], FMul[FromInt[2], x])
    /\ FLeq(FMul[FromInt[2], x], FromInt[2 * n + 1])

\* the normal range of the spec: -20..50 degrees, humidity in (0, 100]
NormalInput(c) ==
    /\ calcT >= -200 /\ calcT <= 500
    /\ c.relHumidity > 0 /\ c.relHumidity <= 1000

\* C3: constructing a Measurement with relHumidity <= 0 or temperatureC = -235
\* raises and yields no object
C3_DomainErrorRaises ==
    \A c \in Constructed :
        (c.relHumidity <= 0 \/ calcT = -2350) =>
            /\ c.result.raised \in {"ValueError", "ZeroDivisionError", "OverflowError"}
            /\ c.result.fields # AllFields

C3_Witness ==
    /\ first # NoCall /\ first.relHumidity = 0 /\ calcT = 250
    /\ first.result.raised = "ValueError"
    /\ second # NoCall /\ second.relHumidity < 0

\* C4 as stated: a larger relHumidity gives strictly larger reported values
C4_StrictlyIncreasing ==
    (first \in Objects /\ second \in Objects
        /\ 0 < first.relHumidity /\ first.relHumidity < second.relHumidity
        /\ second.relHumidity <= 1000) =>
            /\ first.result.absHumidity < second.result.absHumidity
            /\ first.result.dewPointC < second.result.dewPointC
            /\ first.result.steamPressure < second.result.steamPressure

\* C4 amended: a larger relHumidity never gives a smaller reported value
C4_NonDecreasing ==
    (first \in Objects /\ second \in Objects
        /\ 0 < first.relHumidity /\ first.relHumidity < second.relHumidity
        /\ second.relHumidity <= 1000) =>
            /\ first.result.absHumidity <= second.result.absHumidity
            /\ first.result.dewPointC <= second.result.dewPointC
            /\ first.result.steamPressure <= second.result.steamPressure

C4_Witness ==
    /\ first \in Objects /\ second \in Objects
    /\ first.relHumidity = 500 /\ second.relHumidity = 505
    /\ first.result.steamPressure = second.result.steamPressure
    /\ first.result.dewPointC < second.result.dewPointC

\* C5 as stated: dewPointC and steamPressure never exceed the unrounded value
\* and absHumidity is the nearest tenth
C5_NeverRoundedUp ==
    \A c \in Objects :
        NormalInput(c) =>
            /\ FLeq(FromInt[c.result.dewPointC], DewRawOf(c))
            /\ FLeq(FromInt[c.result.steamPressure], SteamRawOf(c))
            /\ NearestTo(c.result.absHumidity, AbsRawOf(c))

\* C5 amended: dewPointC and steamPressure are truncated toward zero (down for
\* a value >= 0, up for a negative dew point), absHumidity is the nearest tenth
C5_TruncatedTowardZero ==
    \A c \in Objects :
        NormalInput(c) =>
            /\ IF FSign[DewRawOf(c)] >= 0
               THEN FloorOf(c.result.dewPointC, DewRawOf(c))
               ELSE CeilOf(c.result.dewPointC, DewRawOf(c))
            /\ FloorOf(c.result.steamPressure, SteamRawOf(c))
            /\ NearestTo(c.result.absHumidity, AbsRawOf(c))

C5_Witness ==
    /\ first \in Objects /\ NormalInput(first)
    /\ first.result.dewPointC < 0
    /\ FLess(DewRawOf(first), FromInt[first.result.dewPointC])

\* C6 as stated: in the normal range dewPointC <= temperatureC, and at
\* relHumidity = 100 the two agree within a tenth
C6_DewPointAtMostTemperature ==
    \A c \in Objects :
        NormalInput(c) =>
            /\ c.result.dewPointC <= calcT
            /\ c.relHumidity = 1000 => calcT - c.result.dewPointC <= 1
(***************************************************************************)
(* requestMeasurement (xiaomi.py 121-145) on one device object.            *)
(***************************************************************************)
\* the number of polls of the wait loop
MaxPolls == 10

\* notifications delivered in one run
MaxNotifications == 3

\* calls of requestMeasurement on the object
MaxCalls == 2

\* A notification's bytes, by what the handler makes of them: whether
\* "T=([0-9\.]+) H=([0-9\.]+)" matches, whether float() accepts both groups,
\* and the two values in tenths.  The pattern admits no sign.
Reading(t, h) == [match |-> TRUE, floats |-> TRUE, T |-> t, H |-> h]

\* "T=1.2.3 H=4": the pattern matches and float() raises ValueError
BadFloat == [match |-> TRUE, floats |-> FALSE, T |-> 0, H |-> 0]

NoMatch == [match |-> FALSE, floats |-> FALSE, T |-> 0, H |-> 0]

Payloads == {NoMatch, BadFloat, Reading(234, 456), Reading(201, 500), Reading(250, 0)}

\* Measurement(float(groups[0]), float(groups[1])) for each payload
FromPayload == [p \in Payloads |-> Measurement(p.T, p.H)]

\* the handler raises: float() or the constructor does
HandlerRaises(p) == p.match /\ (~p.floats \/ FromPayload[p].raised # "None")

\* a slip: the object under construction is kept when the constructor raises
MutNotificationHandler(m, p) ==
    IF p.match /\ p.floats THEN FromPayload[p] ELSE m

\* notification_handler: self._measurement after the handler ran on p
NotificationHandler(m, p) ==
    IF p.match /\ ~HandlerRaises(p) THEN FromPayload[p] ELSE m

\* a slip: one poll too many
MutLoopContinues(m, n) == m = None /\ n <= MaxPolls

\* while not self._measurement and i < 10
LoopContinues(m, n) == m = None /\ n < MaxPolls

\* the statements at which the coroutine awaits, the event loop running handlers
InCall == {"write", "sleep", "stop"}

\* requestMeasurement is entered (130-131: connect() is not awaited, no effect)
Enter ==
    /\ pc' = "start_notify"
    /\ i' = 0
    /\ call' = NewCall(_measurement)
    /\ callNo' = callNo + 1
    /\ UNCHANGED <<_measurement, subscribed, result, storedBy, lastDelivery, delivered>>

\* 133: await start_notify(0x0d, callback=notification_handler)
StartNotify ==
    /\ pc = "start_notify"
    /\ \/ /\ subscribed' = TRUE
          /\ call' = [call EXCEPT !.startOK = TRUE]
          /\ pc' = "write"
          /\ UNCHANGED result
       \/ /\ pc' = "raised"
          /\ result' = [kind |-> "raise", value |-> None, storedBy |-> 0]
          /\ UNCHANGED <<subscribed, call>>
    /\ UNCHANGED <<_measurement, i, callNo, storedBy, lastDelivery, delivered>>
    /\ UNCHANGED <<calcVars, mainVars, scanVars>>

\* 134-136: await write_gatt_char(...); i = 0
WriteGattChar ==
    /\ pc = "write"
    /\ call' = [call EXCEPT !.writeIssued = TRUE]
    /\ \/ /\ pc' = "loop"
          /\ i' = 0
          /\ UNCHANGED result
       \/ /\ pc' = "raised"
          /\ result' = [kind |-> "raise", value |-> None, storedBy |-> 0]
          /\ UNCHANGED i
    /\ UNCHANGED <<_measurement, subscribed, callNo, storedBy, lastDelivery, delivered>>
    /\ UNCHANGED <<calcVars, mainVars, scanVars>>

\* 137: the loop condition
While ==
    /\ pc = "loop"
    /\ pc' = IF LoopContinues(_measurement, i) THEN "sleep" ELSE "stop"
    /\ UNCHANGED <<_measurement, subscribed, i, result, call, callNo, storedBy,
                   lastDelivery, delivered>>
    /\ UNCHANGED <<calcVars, mainVars, scanVars>>

\* 138-139: await asyncio.sleep(.1); i += 1
Sleep ==
    /\ pc = "sleep"
    /\ i' = i + 1
    /\ pc' = "loop"
    /\ UNCHANGED <<_measurement, subscribed, result, call, callNo, storedBy,
                   lastDelivery, delivered>>
    /\ UNCHANGED <<calcVars, mainVars, scanVars>>

\* 140-143: await stop_notify(0x0d), any exception swallowed
StopNotify ==
    /\ pc = "stop"
    /\ pc' = "return"
    /\ \/ /\ subscribed' = FALSE
          /\ call' = [call EXCEPT !.stops = @ + 1]
       \/ /\ call' = [call EXCEPT !.stops = @ + 1, !.stopFailed = TRUE]
          /\ UNCHANGED subscribed
    /\ UNCHANGED <<_measurement, i, result, callNo, storedBy, lastDelivery, delivered>>
    /\ UNCHANGED <<calcVars, mainVars, scanVars>>

\* 145: return self._measurement
Return ==
    /\ pc = "return"
    /\ result' = [kind |-> "return", value |-> _measurement, storedBy |-> storedBy]
    /\ pc' = "returned"
    /\ UNCHANGED <<_measurement, subscribed, i, call, callNo, storedBy,
                   lastDelivery, delivered>>
    /\ UNCHANGED <<calcVars, mainVars, scanVars>>

\* the event loop runs callbacks: the call is at an await, or it has ended and
\* its caller is at one (main only at its await of disconnect)
EventLoopRuns ==
    \/ pc \in InCall
    \/ pc \in {"returned", "raised"} /\ mpc \in {"off", "finally"}

\* 123-128: a notification arrives while the event loop runs, in the call or
\* after it ended with the subscription left active
Deliver(p) ==
    /\ subscribed
    /\ EventLoopRuns
    /\ delivered < MaxNotifications
    /\ delivered' = delivered + 1
    /\ _measurement' = NotificationHandler(_measurement, p)
    /\ lastDelivery' = [match |-> p.match, raised |-> HandlerRaises(p),
                        before |-> _measurement]
    /\ storedBy' = IF p.match /\ ~HandlerRaises(p)
                   THEN (IF pc \in InCall THEN callNo ELSE -1)
                   ELSE storedBy
    /\ call' = IF pc \notin InCall THEN call
               ELSE [call EXCEPT
                        !.matched = @ \/ p.match,
                        !.matchedInLoop = @ \/ (p.match /\ pc # "stop"),
                        !.sleepsAtStore =
                            IF @ = -1 /\ pc # "stop" /\ _measurement = None
                                /\ p.match /\ ~HandlerRaises(p)
                            THEN (IF pc = "sleep" THEN i + 1 ELSE 0)
                            ELSE @]
    /\ UNCHANGED <<subscribed, pc, i, result, callNo>>
    /\ UNCHANGED <<calcVars, mainVars, scanVars>>

\* a caller invoking requestMeasurement again and again on the object
Call ==
    /\ pc \in {"idle", "returned", "raised"}
    /\ callNo < MaxCalls
    /\ Enter
    /\ UNCHANGED <<calcVars, mainVars, scanVars>>

InitRequest == DeviceNew /\ CalcIdle /\ MainIdle /\ ScanIdle

NextRequest ==
    \/ Call
    \/ StartNotify
    \/ WriteGattChar
    \/ While
    \/ Sleep
    \/ StopNotify
    \/ Return
    \/ \E p \in Payloads : Deliver(p)

SpecRequest == InitRequest /\ [][NextRequest]_vars

\* the wait loop of the call in progress has ended
LoopEnded == pc \in {"stop", "return", "returned"}

\* C1 as stated: on an object holding no measurement, without a matching
\* notification the loop makes exactly 10 polls and the call returns None; with
\* one, the loop ends after fewer than 10 sleeps
C1_TenPollsOrEarlyStop ==
    (LoopEnded /\ call.fresh) =>
        /\ ~call.matchedInLoop => i = MaxPolls
        /\ (pc = "returned" /\ ~call.matched) => result.value = None
        /\ call.matchedInLoop => i < MaxPolls

\* C1 amended: the loop never sleeps more than 10 times; without a stored
\* measurement (no matching notification, or one on which float() or the
\* constructor raised) it sleeps exactly 10 times, and the call returns None if
\* no matching notification came at all; once a measurement is stored the loop
\* ends at the next poll, the sleep in progress being the last (the 10th at most)
C1_BoundedWait ==
    /\ i <= MaxPolls
    /\ (LoopEnded /\ call.fresh) =>
        /\ call.sleepsAtStore = -1 => i = MaxPolls
        /\ call.sleepsAtStore # -1 => i = call.sleepsAtStore
        /\ (pc = "returned" /\ ~call.matched) => result.value = None

C1_Witness ==
    /\ pc = "returned" /\ call.fresh /\ call.matchedInLoop
    /\ i = MaxPolls /\ call.sleepsAtStore = MaxPolls
    /\ result.value # None

\* C8 as stated: a call returns a measurement only if a matching notification
\* reached its handler during the call, never one stored by an earlier call
C8_NoStaleMeasurement ==
    (pc = "returned" /\ result.value # None) =>
        /\ call.matched
        /\ result.storedBy = callNo

\* the trigger write follows start_notify
WriteAfterStart == call.writeIssued => call.startOK

\* a failure of stop_notify does not end the call: it returns the measurement
\* held (storedBy = -1: one stored after the call returned)
StopFailureSwallowed ==
    /\ call.stopFailed => pc \in {"return", "returned"}
    /\ (pc = "returned" /\ call.stopFailed /\ storedBy # -1) =>
        result.kind = "return" /\ result.value = _measurement

\* C10 as stated: the trigger write follows start_notify, every call whose
\* start_notify returned calls stop_notify exactly once however it ends, and a
\* failing stop_notify is swallowed and leaves the returned value alone
C10_NotifyBalanced ==
    /\ WriteAfterStart
    /\ (pc \in {"returned", "raised"} /\ call.startOK) => call.stops = 1
    /\ StopFailureSwallowed

(***************************************************************************)
(* main (xiaomi.py 186-217): connect, the requested operations, the except *)
(* and finally clauses, the print.  requestMeasurement runs by the actions *)
(* above.                                                                  *)
(***************************************************************************)
\* argparse's four store_true flags
Arguments == [info : BOOLEAN, battery : BOOLEAN, measure : BOOLEAN, json : BOOLEAN]

\* the battery levels read in a run
BatteryLevels == {5, 100}

\* an attribute lookup on m succeeds: m is an object with all seven attributes
HasAttributes(m) == m # None /\ m.fields = AllFields

\* Measurement.to_dict
to_dict(m) == [k \in AllFields |-> m[k]]

\* "%.1f" of a Fahrenheit value in hundredths: 18 * n + 3200 is even, never a tie
OneDecimal(hundredths) == (hundredths + 5) \div 10

\* Measurement.__str__: the values of the lines, in tenths
Str(m) ==
    <<m.temperatureC, m.dewPointC, OneDecimal(m.temperatureF), OneDecimal(m.dewPointF),
      m.relHumidity, m.absHumidity, m.steamPressure>>

Event(op, ok) == [op |-> op, ok |-> ok]

\* 192: await device.connect()
Connect ==
    /\ mpc = "connect"
    /\ \E ok \in BOOLEAN :
        /\ events' = Append(events, Event("connect", ok))
        /\ mpc' = IF ok THEN "info" ELSE "except"
    /\ UNCHANGED <<args, data, output, stdout>>
    /\ UNCHANGED <<calcVars, deviceVars, scanVars>>

\* 193-196: if args.info
RequestDeviceInfo ==
    /\ mpc = "info"
    /\ IF args.info
       THEN \E ok \in BOOLEAN :
            /\ events' = Append(events, Event("requestDeviceInfo", ok))
            /\ data' = IF ok THEN data \cup {<<"info", "deviceInfo">>} ELSE data
            /\ output' = IF ok THEN Append(output, <<"info", "deviceInfo">>) ELSE output
            /\ mpc' = IF ok THEN "battery" ELSE "except"
       ELSE /\ mpc' = "battery"
            /\ UNCHANGED <<events, data, output>>
    /\ UNCHANGED <<args, stdout>>
    /\ UNCHANGED <<calcVars, deviceVars, scanVars>>

\* 198-201: if args.battery
RequestBatteryLevel ==
    /\ mpc = "battery"
    /\ IF args.battery
       THEN \/ \E batteryLevel \in BatteryLevels :
                /\ events' = Append(events, Event("requestBatteryLevel", TRUE))
                /\ data' = data \cup {<<"battery", batteryLevel>>}
                /\ output' = Append(output, <<"battery", batteryLevel>>)
                /\ mpc' = "measure"
            \/ /\ events' = Append(events, Event("requestBatteryLevel", FALSE))
               /\ mpc' = "except"
               /\ UNCHANGED <<data, output>>
       ELSE /\ mpc' = "measure"
            /\ UNCHANGED <<events, data, output>>
    /\ UNCHANGED <<args, stdout>>
    /\ UNCHANGED <<calcVars, deviceVars, scanVars>>

\* 203-205: if args.measure: device.requestMeasurement() is entered
RequestMeasurement ==
    /\ mpc = "measure"
    /\ IF args.measure
       THEN Enter /\ mpc' = "awaiting"
       ELSE mpc' = "finally" /\ UNCHANGED deviceVars
    /\ UNCHANGED <<args, data, output, events, stdout>>
    /\ UNCHANGED <<calcVars, scanVars>>

\* 205-207: the call ended; measurement.to_dict() raises AttributeError on None
MeasurementEnds ==
    /\ mpc = "awaiting"
    /\ pc \in {"returned", "raised"}
    /\ events' = Append(events, Event("requestMeasurement", pc = "returned"))
    /\ IF pc = "returned" /\ HasAttributes(result.value)
       THEN /\ data' = data \cup {<<"measurement", to_dict(result.value)>>}
            /\ output' = Append(output, <<"measurement", Str(result.value)>>)
            /\ mpc' = "finally"
       ELSE /\ mpc' = "except"
            /\ UNCHANGED <<data, output>>
    /\ UNCHANGED <<args, stdout>>
    /\ UNCHANGED <<calcVars, deviceVars, scanVars>>

\* a slip: the except clause leaves main's try statement past its finally clause
MutExcept ==
    /\ mpc = "except"
    /\ stdout' = Append(stdout, [kind |-> "exception", value |-> "e"])
    /\ mpc' = "print"
    /\ UNCHANGED <<args, data, output, events>>
    /\ UNCHANGED <<calcVars, deviceVars, scanVars>>

\* 209-210: except Exception as e: print(e)
Except ==
    /\ mpc = "except"
    /\ stdout' = Append(stdout, [kind |-> "exception", value |-> "e"])
    /\ mpc' = "finally"
    /\ UNCHANGED <<args, data, output, events>>
    /\ UNCHANGED <<calcVars, deviceVars, scanVars>>

\* 211-212: finally: await device.disconnect(); an exception of it leaves main
Disconnect ==
    /\ mpc = "finally"
    /\ \E ok \in BOOLEAN :
        /\ events' = Append(events, Event("disconnect", ok))
        /\ mpc' = IF ok THEN "print" ELSE "crashed"
        /\ subscribed' = IF ok THEN FALSE ELSE subscribed
    /\ UNCHANGED <<_measurement, pc, i, result, call, callNo, storedBy,
                   lastDelivery, delivered>>
    /\ UNCHANGED <<args, data, output, stdout>>
    /\ UNCHANGED <<calcVars, scanVars>>

\* 214-217: json.dumps(data) if args.json and data, else the joined output
PrintResults ==
    /\ mpc = "print"
    /\ stdout' = IF args.json /\ data # {}
                 THEN Append(stdout, [kind |-> "json", value |-> data])
                 ELSE IF output # <<>>
                      THEN Append(stdout, [kind |-> "text", value |-> output])
                      ELSE stdout
    /\ mpc' = "done"
    /\ UNCHANGED <<args, data, output, events>>
    /\ UNCHANGED <<calcVars, deviceVars, scanVars>>

\* 188-190: device = XiaomiThermometerHygrometer(args.mac), data and output empty
InitMain ==
    /\ args \in Arguments
    /\ mpc = "connect"
    /\ data = {} /\ output = <<>> /\ events = <<>> /\ stdout = <<>>
    /\ DeviceNew /\ CalcIdle /\ ScanIdle

NextMain ==
    \/ Connect
    \/ RequestDeviceInfo
    \/ RequestBatteryLevel
    \/ RequestMeasurement
    \/ StartNotify
    \/ WriteGattChar
    \/ While
    \/ Sleep
    \/ StopNotify
    \/ Return
    \/ \E p \in Payloads : Deliver(p)
    \/ MeasurementEnds
    \/ Except
    \/ Disconnect
    \/ PrintResults

SpecMain == InitMain /\ [][NextMain]_vars

\* the keys of the dict data
Keys(d) == {kv[1] : kv \in d}

\* the objects a notification can construct completely
CompleteObjects ==
    {FromPayload[p] : p \in {q \in Payloads : q.match /\ ~HandlerRaises(q)}}

\* main is past its await of requestMeasurement
MeasurementTaken == \E k \in DOMAIN events : events[k].op = "requestMeasurement"

\* C2: in a run of main, data and output (what is printed) hold a measurement
\* only if it is a complete Measurement constructed from a notification and
\* returned by the call; a handler run in which float() or the constructor
\* raised, or whose bytes did not match, leaves the stored measurement
\* unchanged; when the call returns no measurement, no "measurement" key is
\* added and no measurement text appended
C2_NoPartialMeasurement ==
    /\ (lastDelivery.raised \/ ~lastDelivery.match) => _measurement = lastDelivery.before
    /\ _measurement # None =>
        _measurement \in CompleteObjects /\ _measurement.fields = AllFields
    /\ \A kv \in data : kv[1] = "measurement" =>
        /\ result.kind = "return" /\ result.value \in CompleteObjects
        /\ kv[2] = to_dict(result.value)
        /\ DOMAIN kv[2] = AllFields
    /\ \A k \in DOMAIN output : output[k][1] = "measurement" =>
        /\ result.kind = "return" /\ result.value \in CompleteObjects
        /\ output[k][2] = Str(result.value)
    /\ (MeasurementTaken /\ (result.kind # "return" \/ result.value = None)) =>
        /\ "measurement" \notin Keys(data)
        /\ \A k \in DOMAIN output : output[k][1] # "measurement"
    /\ \A k \in DOMAIN stdout :
        /\ stdout[k].kind = "json" => stdout[k].value = data
        /\ stdout[k].kind = "text" => stdout[k].value = output

C2_Witness ==
    /\ mpc = "done" /\ args.measure /\ args.info /\ ~args.json
    /\ lastDelivery.match /\ lastDelivery.raised
    /\ result.kind = "return" /\ result.value = None
    /\ Keys(data) = {"info"}
    /\ Len(stdout) = 2 /\ stdout[2].kind = "text"

Requests == {"requestDeviceInfo", "requestBatteryLevel", "requestMeasurement"}

\* the positions of the calls of device.disconnect in the run
Disconnects == {k \in DOMAIN events : events[k].op = "disconnect"}

\* a request of the run raised
RequestRaised == \E k \in DOMAIN events : events[k].op \in Requests /\ ~events[k].ok

\* the collected results are on stdout
PrintedCollected ==
    \E k \in DOMAIN stdout :
        IF args.json
        THEN stdout[k].kind = "json" /\ stdout[k].value = data
        ELSE stdout[k].kind = "text" /\ stdout[k].value = output

\* disconnect is called at most once, exactly once when main is past its
\* finally clause, after every request and before any print of results; a
\* failed connect or request is followed by no other request
DisconnectOrdered ==
    /\ Cardinality(Disconnects) <= 1
    /\ mpc \in {"print", "done", "crashed"} => Cardinality(Disconnects) = 1
    /\ \A d \in Disconnects : d = Len(events)
    /\ (\E k \in DOMAIN stdout : stdout[k].kind \in {"json", "text"}) => Disconnects # {}
    /\ \A j, k \in DOMAIN events :
        (j < k /\ ~events[j].ok) => events[k].op = "disconnect"
    /\ \A kv \in data :
        \E k \in DOMAIN events : events[k].ok /\
            events[k].op = (CASE kv[1] = "info" -> "requestDeviceInfo"
                              [] kv[1] = "battery" -> "requestBatteryLevel"
                              [] kv[1] = "measurement" -> "requestMeasurement")

\* C9 as stated: disconnect exactly once, after the last request and before
\* the print; when a request raised, the results collected before it are
\* printed however main ends
C9_CollectedAlwaysPrinted ==
    /\ DisconnectOrdered
    /\ (mpc \in {"done", "crashed"} /\ RequestRaised /\ data # {}) => PrintedCollected

\* C9 amended: disconnect exactly once, after the last request and before the
\* print; when a request raised, the results collected before it are printed
\* if disconnect returned; if disconnect raised, main ends with that exception
\* and prints none of the collected results
C9_CollectedPrintedAfterDisconnect ==
    /\ DisconnectOrdered
    /\ (mpc = "done" /\ RequestRaised /\ data # {}) => PrintedCollected
    /\ mpc = "done" => events[Len(events)] = Event("disconnect", TRUE)
    /\ mpc = "crashed" =>
        /\ events[Len(events)] = Event("disconnect", FALSE)
        /\ \A k \in DOMAIN stdout : stdout[k].kind = "exception"

C9_Witness ==
    /\ mpc = "done" /\ args.info /\ args.battery /\ args.measure /\ args.json
    /\ events = <<Event("connect", TRUE), Event("requestDeviceInfo", TRUE),
                  Event("requestBatteryLevel", FALSE), Event("disconnect", TRUE)>>
    /\ Keys(data) = {"info"}
    /\ Len(stdout) = 2 /\ stdout[2] = [kind |-> "json", value |-> data]

(***************************************************************************)
(* scan (xiaomi.py 168-183): the detection callback of the BleakScanner.   *)
(* An address is the sequence of its six octets as written.                *)
(***************************************************************************)
\* detection callbacks in one scan
MaxCallbacks == 4

Addresses ==
    {<<"4C", "65", "A8", "D0", "12", "34">>,
     <<"4c", "65", "a8", "d0", "56", "78">>,
     <<"C4", "7C", "8D", "6A", "00", "01">>}

\* device.name: None or a name
Names == {"", "MJ_HT_V1"}

\* str.lower on an octet
LowerOctet(o) ==
    CASE o = "4C" -> "4c"
      [] o = "A8" -> "a8"
      [] o = "D0" -> "d0"
      [] o = "C4" -> "c4"
      [] o = "7C" -> "7c"
      [] o = "8D" -> "8d"
      [] o = "6A" -> "6a"
      [] OTHER -> o

\* device.address.lower()
lower(address) == [k \in DOMAIN address |-> LowerOctet(address[k])]

\* address.startswith("4c:65:a8:")
StartsWithPrefix(address) == SubSeq(address, 1, 3) = <<"4c", "65", "a8">>

\* x in found_devices
In(x, list) == \E k \in DOMAIN list : list[k] = x

\* 172-180: callback(device, advertising_data)
Callback(address, name) ==
    /\ callbacks < MaxCallbacks
    /\ callbacks' = callbacks + 1
    /\ advertised' = advertised \cup {<<address, name # "">>}
    /\ IF ~In(address, found_devices)
       THEN /\ found_devices' = Append(found_devices, address)
            /\ IF name # "" /\ StartsWithPrefix(lower(address))
               THEN /\ printed' = Append(printed, <<address, name>>)
                    /\ UNCHANGED stderr
               ELSE IF name # ""
                    THEN /\ stderr' = Append(stderr, Len(found_devices'))
                         /\ UNCHANGED printed
                    ELSE UNCHANGED <<printed, stderr>>
       ELSE UNCHANGED <<found_devices, printed, stderr>>
    /\ UNCHANGED <<calcVars, deviceVars, mainVars>>

\* 170: found_devices = list()
InitScan == ScanIdle /\ DeviceNew /\ CalcIdle /\ MainIdle

NextScan == \E address \in Addresses, name \in Names : Callback(address, name)

SpecScan == InitScan /\ [][NextScan]_vars

\* the number of lines printed for an address
TimesPrinted(address) == Cardinality({k \in DOMAIN printed : printed[k][1] = address})

\* C7 as stated: every address with the vendor prefix that was advertised with
\* a name is printed exactly once, whatever the order of its advertisements;
\* no address is printed twice and none without the prefix
C7_NamedVendorDevicePrinted ==
    /\ \A adv \in advertised :
        (adv[2] /\ StartsWithPrefix(lower(adv[1]))) => TimesPrinted(adv[1]) = 1
    /\ \A k \in DOMAIN printed :
        /\ TimesPrinted(printed[k][1]) = 1
        /\ StartsWithPrefix(lower(printed[k][1]))
====
